---------------------------- MODULE Spec2Model ----------------------------
(***************************************************************************)
(* A model of the iCalendar scanner (lex.go, kept as src/unnamed/part_003) *)
(* and of the parser and validators (src/parse.go).                        *)
(*                                                                         *)
(* Text is a sequence of one-character strings; a byte offset of the Go    *)
(* code is an index into it (0-based, as in Go).  Every character of the   *)
(* model is one byte wide.  A Go string held by a token or a property is   *)
(* the sequence of its characters.                                         *)
(***************************************************************************)
EXTENDS Integers, Sequences, FiniteSets, TLC

VARIABLES
    input,      \* lexer.input: the unfolded text being scanned
    l,          \* the lexer: state (next state function), at (resume point
                \* inside it after a blocking send), start, pos, width, lastPos
    items,      \* lexer.items: the items handed to the channel and not yet received
    closed,     \* close(l.items) was executed
    sent,       \* history: every item the scanner sent, in order
    recv,       \* history: every item nextItem returned from a send, in order
    tl,         \* the test that calls the code: the TestLex loop ("run", "done";
                \* failed: t.Error was called), TestParseDate, TestFormat
    p,          \* the parser: pc/at (position in parse()), token[0], peekCount,
                \* scope, v, a (indices into events/alarms, 0 is nil), the
                \* property, param name and param being built
    c,          \* the Calendar p.c
    events,     \* the heap of Event objects created by NewEvent
    alarms,     \* the heap of Alarm objects created by NewAlarm
    ret         \* what Parse returned: [cal, err], notReturned while it runs

vars == <<input, l, items, closed, sent, recv, tl, p, c, events, alarms, ret>>

lexVars == <<l, items, closed, sent>>
parseVars == <<p, c, events, alarms, ret>>

(***************************************************************************)
(* Characters                                                              *)
(***************************************************************************)
CR == "\r"
LF == "\n"
eof == "EOF"

Letters == {"A", "B", "C", "D", "E", "F", "G", "H", "I", "J", "K", "L", "M",
            "N", "O", "P", "Q", "R", "S", "T", "U", "V", "W", "X", "Y", "Z",
            "a", "b", "x", "y"}
Digits == {"0", "1", "2", "3", "4", "5", "6", "7", "8", "9"}
Controls == {CR, LF}

isName(r) == r \in Letters \/ r \in Digits \/ r = "-"

\* unicode.IsControl(-1) is false, so eof is a "safe" character
isQSafeChar(r) == r \notin Controls /\ r # "\""

isSafeChar(r) == r \notin Controls /\ r # "\"" /\ r # ";" /\ r # ":" /\ r # ","

\* unicode.IsGraphic(-1) is false
IsGraphic(r) == r # eof /\ r \notin Controls

(***************************************************************************)
(* Item types, in the order of the iota block                              *)
(***************************************************************************)
itemError == 0
itemEOF == 1
itemLineEnd == 2
itemName == 3
itemParamName == 4
itemParamValue == 5
itemValue == 6
itemColon == 7
itemSemiColon == 8
itemEqual == 9
itemComma == 10
itemKeyword == 11
itemBeginVCalendar == 12
itemEndVCalendar == 13
itemBeginVEvent == 14
itemEndVEvent == 15
itemBeginVAlarm == 16
itemEndVAlarm == 17

crlf == <<CR, LF>>
beginVCalendar == <<"B","E","G","I","N",":","V","C","A","L","E","N","D","A","R">>
endVCalendar == <<"E","N","D",":","V","C","A","L","E","N","D","A","R">>
beginVEvent == <<"B","E","G","I","N",":","V","E","V","E","N","T">>
endVEvent == <<"E","N","D",":","V","E","V","E","N","T">>
beginVAlarm == <<"B","E","G","I","N",":","V","A","L","A","R","M">>
endVAlarm == <<"E","N","D",":","V","A","L","A","R","M">>

\* the keywords lexName tries, in its order
key == << [lit |-> beginVCalendar, typ |-> itemBeginVCalendar],
          [lit |-> endVCalendar, typ |-> itemEndVCalendar],
          [lit |-> beginVEvent, typ |-> itemBeginVEvent],
          [lit |-> endVEvent, typ |-> itemEndVEvent] >>

\* the VALARM keywords of the scanner the parser was written against
alarmKey == << [lit |-> beginVAlarm, typ |-> itemBeginVAlarm],
               [lit |-> endVAlarm, typ |-> itemEndVAlarm] >>

\* the zero value of item, which a receive from the closed channel yields
zeroItem == [typ |-> itemError, pos |-> 0, val |-> <<>>]

(***************************************************************************)
(* The scanner                                                             *)
(***************************************************************************)
\* strings.HasPrefix(l.input[pos:], lit)
HasPrefix(pos, lit) ==
    /\ pos + Len(lit) <= Len(input)
    /\ SubSeq(input, pos + 1, pos + Len(lit)) = lit

\* lexer.next: the rune read, and the lexer after it
next(lx) ==
    IF lx.pos >= Len(input)
    THEN [r |-> eof, l |-> [lx EXCEPT !.width = 0]]
    ELSE [r |-> input[lx.pos + 1], l |-> [lx EXCEPT !.width = 1, !.pos = lx.pos + 1]]

\* lexer.backup
backup(lx) == [lx EXCEPT !.pos = lx.pos - lx.width]

\* lexer.peek
peek(lx) == [r |-> next(lx).r, l |-> backup(next(lx).l)]

\* lexer.ignore
ignore(lx) == [lx EXCEPT !.start = lx.pos]

InClass(class, r) ==
    CASE class = "name" -> isName(r)
      [] class = "qsafe" -> isQSafeChar(r)
      [] class = "safe" -> isSafeChar(r)
      [] class = "graphic" -> IsGraphic(r)

\* the loops "for { switch r := l.next(); { case class(r): default: l.backup();
\* ... break } }": the lexer at the break, after the backup: at the first
\* character from l.pos on that is not of the class, or at the end of the
\* input.  A loop whose class holds of eof never leaves once the input is
\* exhausted.
absorb(class, lx) ==
    LET stops == {i \in lx.pos..(Len(input) - 1) : ~InClass(class, input[i + 1])}
        stop == IF stops = {} THEN Len(input)
                ELSE CHOOSE i \in stops : \A j \in stops : i <= j
    IN [lx EXCEPT !.pos = stop, !.width = IF stop < Len(input) THEN 1 ELSE 0]

spins(class, lx) == absorb(class, lx).pos >= Len(input) /\ InClass(class, eof)

\* the state of a scanner that runs one of these loops forever
hang(lx) == [l |-> [lx EXCEPT !.state = "hang"], out |-> <<>>]

\* lexer.emit: the item sent and the lexer after the send.  The slice
\* l.input[l.start:l.pos] panics when l.pos is beyond the input.
emit(lx, t, nextState, nextAt) ==
    IF lx.pos > Len(input) \/ lx.start > lx.pos
    THEN [l |-> [lx EXCEPT !.state = "panic"], out |-> <<>>]
    ELSE [l |-> [lx EXCEPT !.start = lx.pos, !.state = nextState, !.at = nextAt],
          out |-> << [typ |-> t, pos |-> lx.start,
                      val |-> SubSeq(input, lx.start + 1, lx.pos)] >>]

\* lexer.errorf: the error item is sent; what the caller does with the nil
\* it returns is the caller's business
errorf(lx, msg, nextState, nextAt) ==
    [l |-> [lx EXCEPT !.state = nextState, !.at = nextAt],
     out |-> << [typ |-> itemError, pos |-> lx.start, val |-> <<msg>>] >>]

\* a state function that returns without sending
goto(lx, nextState) == [l |-> [lx EXCEPT !.state = nextState, !.at = 0], out |-> <<>>]

lexContentLine(lx) ==
    LET n == next(lx) IN
    CASE n.r = ";" -> emit(n.l, itemSemiColon, "lexParamName", 0)
      [] n.r = ":" -> emit(n.l, itemColon, "lexValue", 0)
      [] n.r = "," -> emit(n.l, itemComma, "lexParamValue", 0)
      [] OTHER -> errorf(n.l, "unrecognized character in action", "nil", 0)

\* lexNewLine returning nil at the end of the input without its emit of EOF
lexNewLineWithoutEOF(lx) ==
    LET advance(m) == emit([m EXCEPT !.pos = m.pos + Len(crlf)], itemLineEnd, "lexNewLine", 2) IN
    CASE lx.at = 0 ->
            IF peek(lx).r = eof THEN goto(peek(lx).l, "nil")
            ELSE IF ~HasPrefix(lx.pos, crlf)
                 THEN errorf(peek(lx).l, "unable to find end of line CRLF", "lexNewLine", 1)
                 ELSE advance(peek(lx).l)
      [] lx.at = 1 -> advance(lx)
      [] lx.at = 2 ->
            IF next(lx).r = eof THEN goto(next(lx).l, "nil")
            ELSE goto(backup(next(lx).l), "lexName")

\* lexNewLine does not return after its errorf: at = 1 is the code after it,
\* at = 2 the code after the emit of the line end
lexNewLine(lx) ==
    LET advance(m) == emit([m EXCEPT !.pos = m.pos + Len(crlf)], itemLineEnd, "lexNewLine", 2) IN
    CASE lx.at = 0 ->
            IF peek(lx).r = eof THEN goto(peek(lx).l, "nil")
            ELSE IF ~HasPrefix(lx.pos, crlf)
                 THEN errorf(peek(lx).l, "unable to find end of line CRLF", "lexNewLine", 1)
                 ELSE advance(peek(lx).l)
      [] lx.at = 1 -> advance(lx)
      [] lx.at = 2 ->
            IF next(lx).r = eof THEN emit(next(lx).l, itemEOF, "nil", 0)
            ELSE goto(backup(next(lx).l), "lexName")

Keywords == key \o alarmKey
Matches(pos) == {i \in 1..Len(Keywords) : HasPrefix(pos, Keywords[i].lit)}

lexName(lx) ==
    IF Matches(lx.pos) # {}
    THEN LET k == Keywords[CHOOSE i \in Matches(lx.pos) : \A j \in Matches(lx.pos) : i <= j]
         IN emit([lx EXCEPT !.pos = lx.pos + Len(k.lit)], k.typ, "lexNewLine", 0)
    ELSE emit(absorb("name", lx), itemName, "lexContentLine", 0)

\* at = 1 is the code after the emit of the param name
lexParamName(lx) ==
    CASE lx.at = 0 -> emit(absorb("name", lx), itemParamName, "lexParamName", 1)
      [] lx.at = 1 ->
            IF next(lx).r = "="
            THEN emit(next(lx).l, itemEqual, "lexParamValue", 0)
            ELSE errorf(next(lx).l, "missing = sign after param name", "nil", 0)

\* at = 1 is the code after the emit of a quoted value; the errorf there is
\* not returned either, the function goes on to return lexContentLine
lexParamValue(lx) ==
    CASE lx.at = 0 ->
            IF next(lx).r = "\""
            THEN IF spins("qsafe", ignore(next(lx).l))
                 THEN hang(absorb("qsafe", ignore(next(lx).l)))
                 ELSE emit(absorb("qsafe", ignore(next(lx).l)), itemParamValue, "lexParamValue", 1)
            ELSE IF spins("safe", backup(next(lx).l))
                 THEN hang(absorb("safe", backup(next(lx).l)))
                 ELSE emit(absorb("safe", backup(next(lx).l)), itemParamValue, "lexContentLine", 0)
      [] lx.at = 1 ->
            IF next(lx).r # "\""
            THEN errorf(next(lx).l, "Missing quote for closing value", "lexContentLine", 0)
            ELSE goto(ignore(next(lx).l), "lexContentLine")

lexValue(lx) == emit(absorb("graphic", lx), itemValue, "lexNewLine", 0)

\* lex: the lexer as lex() creates it; run() sets the first state
lex == [state |-> "lexName", at |-> 0, start |-> 0, pos |-> 0, width |-> 0, lastPos |-> 0]

\* the channel is unbuffered (make(chan item)): a send returns, and the
\* scanner goes on, once the item was received
SendReturnedBuffered == Len(items) <= 1
SendReturned == items = <<>>

\* a panic in either goroutine ends the process
Alive == l.state # "panic" /\ p.pc # "panic"

LexApply(r) ==
    /\ l' = r.l
    /\ items' = items \o r.out
    /\ sent' = sent \o r.out
    /\ UNCHANGED <<input, closed, recv, tl, p, c, events, alarms, ret>>

LexName == l.state = "lexName" /\ Alive /\ SendReturned /\ \E r \in {lexName(l)} : LexApply(r)
LexContentLine == l.state = "lexContentLine" /\ Alive /\ SendReturned /\ \E r \in {lexContentLine(l)} : LexApply(r)
LexNewLine == l.state = "lexNewLine" /\ Alive /\ SendReturned /\ \E r \in {lexNewLine(l)} : LexApply(r)
LexParamName == l.state = "lexParamName" /\ Alive /\ SendReturned /\ \E r \in {lexParamName(l)} : LexApply(r)
LexParamValue == l.state = "lexParamValue" /\ Alive /\ SendReturned /\ \E r \in {lexParamValue(l)} : LexApply(r)
LexValue == l.state = "lexValue" /\ Alive /\ SendReturned /\ \E r \in {lexValue(l)} : LexApply(r)

\* lexer.run, once a state function returned nil: close(l.items)
LexRunClose ==
    /\ l.state = "nil" /\ Alive /\ SendReturned
    /\ l' = [l EXCEPT !.state = "closed"]
    /\ closed' = TRUE
    /\ UNCHANGED <<input, items, sent, recv, tl, p, c, events, alarms, ret>>

LexerNext ==
    \/ LexName
    \/ LexContentLine
    \/ LexNewLine
    \/ LexParamName
    \/ LexParamValue
    \/ LexValue
    \/ LexRunClose

(***************************************************************************)
(* The consumer side of the channel                                        *)
(***************************************************************************)
\* item := <-l.items can return: an item is offered, or the channel is closed
CanReceive == items # <<>> \/ closed

\* the item received
Received == IF items # <<>> THEN Head(items) ELSE zeroItem

\* lexer.nextItem, the lexer's side of it
nextItem ==
    /\ l' = [l EXCEPT !.lastPos = Received.pos]
    /\ items' = IF items # <<>> THEN Tail(items) ELSE items
    /\ recv' = IF items # <<>> THEN Append(recv, Received) ELSE recv
    /\ UNCHANGED <<input, closed, sent>>

\* TestLex: for { item := lexer.nextItem(); EOF: break; error: t.Error }
TestLexNextItem ==
    /\ tl.pc = "run" /\ Alive /\ CanReceive
    /\ nextItem
    /\ tl' = [pc |-> IF Received.typ = itemEOF THEN "done" ELSE "run",
              failed |-> tl.failed \/ Received.typ = itemError]
    /\ UNCHANGED parseVars


(***************************************************************************)
(* Property names and the other string constants of parse.go and ical.go   *)
(***************************************************************************)
sPRODID == <<"P","R","O","D","I","D">>
sVERSION == <<"V","E","R","S","I","O","N">>
sCALSCALE == <<"C","A","L","S","C","A","L","E">>
sMETHOD == <<"M","E","T","H","O","D">>
sUID == <<"U","I","D">>
sDTSTAMP == <<"D","T","S","T","A","M","P">>
sDTSTART == <<"D","T","S","T","A","R","T">>
sDTEND == <<"D","T","E","N","D">>
sDURATION == <<"D","U","R","A","T","I","O","N">>
sSUMMARY == <<"S","U","M","M","A","R","Y">>
sDESCRIPTION == <<"D","E","S","C","R","I","P","T","I","O","N">>
sACTION == <<"A","C","T","I","O","N">>
sTRIGGER == <<"T","R","I","G","G","E","R">>
sTZID == <<"T","Z","I","D">>
sVALUE == <<"V","A","L","U","E">>
sDATE == <<"D","A","T","E">>
sGREGORIAN == <<"G","R","E","G","O","R","I","A","N">>

(***************************************************************************)
(* time.Time, as far as the parser needs it: the wall clock text that was  *)
(* parsed, the location it was read in, and the days added to it.          *)
(***************************************************************************)
Chars15 == <<"0","0","0","1","0","1","0","1","T","0","0","0","0","0","0">>

\* time.Time{}: January 1, year 1, 00:00:00 UTC
zeroTime == [wall |-> Chars15, loc |-> "UTC", days |-> 0]

\* t.IsZero()
IsZero(t) == t.wall = zeroTime.wall /\ t.loc = "UTC" /\ t.days = 0

dateLayout == "20060102"
dateTimeLayoutUTC == "20060102T150405Z"
dateTimeLayoutLocalized == "20060102T150405"

DigitChars == <<"0","1","2","3","4","5","6","7","8","9">>

Num1(ch) == (CHOOSE n \in 1..10 : DigitChars[n] = ch) - 1
Num2(a, b) == 10 * Num1(a) + Num1(b)
Num4(s) == 100 * Num2(s[1], s[2]) + Num2(s[3], s[4])

Pad2(n) == <<DigitChars[(n \div 10) + 1], DigitChars[(n % 10) + 1]>>
Pad4(n) == Pad2(n \div 100) \o Pad2(n % 100)

AllDigits(s, from, to) == \A i \in from..to : s[i] \in Digits

\* the days of a month of the proleptic Gregorian calendar
IsLeap(year) == year % 4 = 0 /\ (year % 100 # 0 \/ year % 400 = 0)
DaysIn(year, month) ==
    CASE month = 2 -> IF IsLeap(year) THEN 29 ELSE 28
      [] month \in {4, 6, 9, 11} -> 30
      [] OTHER -> 31

\* the date part YYYYMMDD at s[1..8]: a day of the calendar
DateOK(s) ==
    /\ AllDigits(s, 1, 8)
    /\ Num2(s[5], s[6]) \in 1..12
    /\ Num2(s[7], s[8]) \in 1..DaysIn(Num4(s), Num2(s[5], s[6]))

\* the time part HHMMSS at s[10..15]
ClockOK(s) ==
    /\ AllDigits(s, 10, 15)
    /\ Num2(s[10], s[11]) < 24
    /\ Num2(s[12], s[13]) < 60
    /\ Num2(s[14], s[15]) < 60

\* whether value has the form of the layout
layoutMatches(layout, value) ==
    CASE layout = dateLayout -> Len(value) = 8 /\ DateOK(value)
      [] layout = dateTimeLayoutLocalized ->
            Len(value) = 15 /\ DateOK(value) /\ value[9] = "T" /\ ClockOK(value)
      [] layout = dateTimeLayoutUTC ->
            Len(value) = 16 /\ DateOK(value) /\ value[9] = "T" /\ ClockOK(value)
            /\ value[16] = "Z"

\* the wall clock a value of the layout denotes: midnight for a date
wallOf(layout, value) ==
    IF layout = dateLayout THEN value \o SubSeq(Chars15, 9, 15)
    ELSE SubSeq(value, 1, 15)

\* time.ParseInLocation(layout, value, loc): ok is err == nil; none of the
\* layouts holds a zone, so the time is in loc, and a nil location panics in
\* time.Date once the value has parsed
ParseInLocation(layout, value, loc) ==
    IF ~layoutMatches(layout, value) THEN [ok |-> FALSE, panic |-> FALSE, t |-> zeroTime]
    ELSE IF loc = "nil" THEN [ok |-> FALSE, panic |-> TRUE, t |-> zeroTime]
    ELSE [ok |-> TRUE, panic |-> FALSE,
          t |-> [wall |-> wallOf(layout, value), loc |-> loc, days |-> 0]]

\* time.Parse(layout, value)
timeParse(layout, value) == ParseInLocation(layout, value, "UTC")

\* the zones time.LoadLocation finds
zoneNewYork == <<"A","m","e","r","i","c","a","/","N","e","w","_","Y","o","r","k">>
zoneUTC == <<"U","T","C">>

\* time.LoadLocation(name), "nil" when it fails
LoadLocation(name) ==
    CASE name = <<>> -> "UTC"
      [] name = zoneUTC -> "UTC"
      [] name = zoneNewYork -> "America/New_York"
      [] OTHER -> "nil"

\* t.Add(time.Hour * 24)
AddDay(t) == [t EXCEPT !.days = t.days + 1]

\* the date after the date YYYYMMDD
NextDate(d) ==
    LET year == Num4(d)
        month == Num2(d[5], d[6])
        day == Num2(d[7], d[8])
    IN IF day < DaysIn(year, month) THEN Pad4(year) \o Pad2(month) \o Pad2(day + 1)
       ELSE IF month < 12 THEN Pad4(year) \o Pad2(month + 1) \o Pad2(1)
       ELSE Pad4(year + 1) \o Pad2(1) \o Pad2(1)

\* the wall clock of t in its own location.  A time gets no more than one
\* day added, and no text of the model lies on the eve of a clock change.
Wall(t) ==
    IF t.days = 0 THEN t.wall
    ELSE NextDate(SubSeq(t.wall, 1, 8)) \o SubSeq(t.wall, 9, 15)

\* t.Format(dateTimeLayoutUTC): the wall clock of t in its location, then
\* the literal Z of the layout
timeFormat(t) == Wall(t) \o <<"Z">>

\* date and date-time values, well formed and not
dUTC == <<"1","9","9","8","0","1","1","9","T","0","7","0","0","0","0","Z">>
dLocal == <<"1","9","9","8","0","1","1","9","T","0","2","0","0","0","0">>
dDate == <<"1","9","9","8","0","1","1","9">>
dLeapDay == <<"2","0","0","0","0","2","2","9">>
dNoSuchDay == <<"1","9","9","8","0","2","3","0">>
dNoSuchHour == <<"1","9","9","8","0","1","1","9","T","2","5","0","0","0","0","Z">>
dShortZ == <<"1","9","9","8","0","1","1","9","Z">>
dLater == <<"1","9","9","8","0","1","2","1","T","0","7","0","0","0","0","Z">>

(***************************************************************************)
(* The object graph                                                        *)
(***************************************************************************)
NoParams == [n \in {} |-> <<>>]

NewCalendar == [Properties |-> <<>>, Events |-> <<>>, Prodid |-> <<>>,
                Version |-> <<>>, Calscale |-> sGREGORIAN, Method |-> <<>>]

NewProperty == [Name |-> <<>>, Params |-> NoParams, Value |-> <<>>]

NewEvent == [Properties |-> <<>>, Alarms |-> <<>>, UID |-> <<>>,
             Timestamp |-> zeroTime, StartDate |-> zeroTime, EndDate |-> zeroTime,
             Summary |-> <<>>, Description |-> <<>>]

NewAlarm == [Properties |-> <<>>, Action |-> <<>>, Trigger |-> <<>>]

NewParam == <<>>

\* hasProperty(name, properties)
hasPropertyFirstOnly(name, properties) ==
    Len(properties) > 0 /\ properties[1].Name = name
hasProperty(name, properties) ==
    \E i \in 1..Len(properties) : properties[i].Name = name

\* parseDate(prop)
parseDate(prop) ==
    IF sTZID \in DOMAIN prop.Params
    THEN ParseInLocation(dateTimeLayoutLocalized, prop.Value,
                         LoadLocation(prop.Params[sTZID][1]))
    ELSE IF Len(prop.Value) > 0 /\ prop.Value[Len(prop.Value)] = "Z"
    THEN timeParse(dateTimeLayoutUTC, prop.Value)
    ELSE IF Len(prop.Value) = 15
    THEN ParseInLocation(dateTimeLayoutLocalized, prop.Value, "Local")
    ELSE IF sVALUE \in DOMAIN prop.Params /\ prop.Params[sVALUE][1] = sDATE
    THEN timeParse(dateLayout, prop.Value)
    ELSE timeParse(dateTimeLayoutLocalized, prop.Value)

\* the value of the one element of a singleton set
The(S) == CHOOSE x \in S : TRUE

\* one pass of the loop of validateCalendar
calendarStep(acc, prop) ==
    LET cal == acc.c
        c1 == IF prop.Name = sPRODID THEN [cal EXCEPT !.Prodid = prop.Value] ELSE cal
        c2 == IF prop.Name = sVERSION THEN [c1 EXCEPT !.Version = prop.Value] ELSE c1
        c3 == IF prop.Name = sCALSCALE THEN [c2 EXCEPT !.Calscale = prop.Value] ELSE c2
        c4 == IF prop.Name = sMETHOD THEN [c3 EXCEPT !.Method = prop.Value] ELSE c3
    IN [c |-> c4,
        requiredCount |-> acc.requiredCount + (IF prop.Name = sPRODID THEN 1 ELSE 0)
                                            + (IF prop.Name = sVERSION THEN 1 ELSE 0)]

\* the loop of validateCalendar from property i on
RECURSIVE calendarLoop(_, _)
calendarLoop(acc, i) ==
    IF i > Len(acc.c.Properties) THEN acc
    ELSE The({calendarLoop(a, i + 1) : a \in {calendarStep(acc, acc.c.Properties[i])}})

\* validateCalendar(c): the calendar as it leaves it, and its error
validateCalendar(cal) ==
    LET r == The({calendarLoop(a, 1) : a \in {[c |-> cal, requiredCount |-> 0]}}) IN
    [c |-> r.c,
     err |-> IF r.requiredCount # 2 THEN "missing either required property prodid / version" ELSE "nil"]

UniqueNames == {sUID, sDTSTAMP, sDTSTART, sDTEND, sDURATION, sSUMMARY, sDESCRIPTION}

\* one pass of the loop of validateEvent: the event, the counts, and the
\* error or the panic with which the pass left validateEvent
eventStep(acc, prop) ==
    LET v == acc.v
        name == prop.Name
    IN CASE name = sUID ->
              [acc EXCEPT !.v.UID = prop.Value, !.uniqueCount[sUID] = @ + 1,
                          !.requiredCount = @ + 1]
         [] name = sDTSTAMP ->
              [acc EXCEPT !.v.Timestamp = timeParse(dateTimeLayoutUTC, prop.Value).t,
                          !.uniqueCount[sDTSTAMP] = @ + 1, !.requiredCount = @ + 1]
         [] name = sDTSTART ->
              IF parseDate(prop).panic THEN [acc EXCEPT !.panic = TRUE]
              ELSE [acc EXCEPT !.v.StartDate = parseDate(prop).t,
                               !.uniqueCount[sDTSTART] = @ + 1, !.requiredCount = @ + 1]
         [] name = sDTEND ->
              IF hasProperty(sDURATION, v.Properties)
              THEN [acc EXCEPT !.err = "Either dtend or duration MAY appear"]
              ELSE IF parseDate(prop).panic THEN [acc EXCEPT !.panic = TRUE]
              ELSE [acc EXCEPT !.v.EndDate = parseDate(prop).t, !.uniqueCount[sDTEND] = @ + 1]
         [] name = sDURATION ->
              IF hasProperty(sDTEND, v.Properties)
              THEN [acc EXCEPT !.err = "Either dtend or duration MAY appear"]
              ELSE [acc EXCEPT !.uniqueCount[sDURATION] = @ + 1]
         [] name = sSUMMARY ->
              [acc EXCEPT !.v.Summary = prop.Value, !.uniqueCount[sSUMMARY] = @ + 1]
         [] name = sDESCRIPTION ->
              [acc EXCEPT !.v.Description = prop.Value, !.uniqueCount[sDESCRIPTION] = @ + 1]
         [] OTHER -> acc

\* the loop of validateEvent returning the error of a date that does not
\* resolve, instead of dropping it
RECURSIVE eventLoopStrict(_, _)
eventLoopStrict(acc, i) ==
    IF i > Len(acc.v.Properties) \/ acc.err # "nil" \/ acc.panic THEN acc
    ELSE LET prop == acc.v.Properties[i]
             failed == \/ prop.Name = sDTSTAMP /\ ~timeParse(dateTimeLayoutUTC, prop.Value).ok
                       \/ prop.Name \in {sDTSTART, sDTEND} /\ ~parseDate(prop).ok
         IN IF failed THEN [acc EXCEPT !.err = "parsing time"]
            ELSE The({eventLoopStrict(a, i + 1) : a \in {eventStep(acc, prop)}})

\* the loop of validateEvent from property i on
RECURSIVE eventLoop(_, _)
eventLoop(acc, i) ==
    IF i > Len(acc.v.Properties) \/ acc.err # "nil" \/ acc.panic THEN acc
    ELSE The({eventLoop(a, i + 1) : a \in {eventStep(acc, acc.v.Properties[i])}})

\* what validateEvent does once the loop is through
eventChecks(r) ==
    IF r.panic \/ r.err # "nil" THEN [v |-> r.v, err |-> r.err, panic |-> r.panic]
    ELSE IF r.requiredCount # 3
    THEN [v |-> r.v, err |-> "missing either required property dtstamp / uid / dtstart",
          panic |-> FALSE]
    ELSE IF \E n \in UniqueNames : r.uniqueCount[n] > 1
    THEN [v |-> r.v, err |-> "property must not occur more than once", panic |-> FALSE]
    ELSE IF ~hasProperty(sDTEND, r.v.Properties)
    THEN [v |-> [r.v EXCEPT !.EndDate = AddDay(r.v.StartDate)], err |-> "nil", panic |-> FALSE]
    ELSE [v |-> r.v, err |-> "nil", panic |-> FALSE]

\* validateEvent(v): the event as validateEvent leaves it, and its error
validateEvent(v) ==
    The({eventChecks(r) : r \in {eventLoop([v |-> v, requiredCount |-> 0,
                                            uniqueCount |-> [n \in UniqueNames |-> 0],
                                            err |-> "nil", panic |-> FALSE], 1)}})

\* one pass of the loop of validateAlarm
alarmStep(acc, prop) ==
    CASE prop.Name = sACTION -> [acc EXCEPT !.a.Action = prop.Value, !.nAction = @ + 1]
      [] prop.Name = sTRIGGER -> [acc EXCEPT !.a.Trigger = prop.Value, !.nTrigger = @ + 1]
      [] OTHER -> acc

RECURSIVE alarmLoop(_, _)
alarmLoop(acc, i) ==
    IF i > Len(acc.a.Properties) THEN acc
    ELSE The({alarmLoop(x, i + 1) : x \in {alarmStep(acc, acc.a.Properties[i])}})

\* what validateAlarm does once the loop is through
alarmChecks(r) ==
    [a |-> r.a,
     err |-> IF r.nAction + r.nTrigger # 2
             THEN "missing either required property action / trigger"
             ELSE IF r.nAction > 1 \/ r.nTrigger > 1
             THEN "property must not occur more than once"
             ELSE "nil"]

\* validateAlarm(a)
validateAlarm(a) ==
    The({alarmChecks(r) : r \in {alarmLoop([a |-> a, nAction |-> 0, nTrigger |-> 0], 1)}})

(***************************************************************************)
(* The parser.  A parser state st is [p, c, events, alarms, ret]; each     *)
(* operator below is the code between two calls of p.next().               *)
(***************************************************************************)
scopeCalendar == 0
scopeEvent == 1
scopeAlarm == 2

\* &parser{} as Parse sets it up
newParser == [pc |-> "parse", at |-> 0, token |-> <<zeroItem, zeroItem>>, peekCount |-> 0,
              scope |-> scopeCalendar, v |-> 0, a |-> 0,
              prop |-> NewProperty, paramName |-> <<>>, param |-> NewParam]

goOn(st, pc, at) == [st EXCEPT !.p.pc = pc, !.p.at = at]

\* a nil pointer dereference, an index out of range
panic(st) == [st EXCEPT !.p.pc = "panic"]

\* parse(): return nil, err
parseFailsKeepingCalendar(st, err) ==
    [st EXCEPT !.p.pc = "returned", !.ret = [cal |-> "p.c", err |-> err]]
parseFails(st, err) ==
    [st EXCEPT !.p.pc = "returned", !.ret = [cal |-> "nil", err |-> err]]

\* parse() validating the calendar once more before it returns it
parseDoneValidated(st) ==
    IF validateCalendar(st.c).err # "nil"
    THEN [st EXCEPT !.p.pc = "returned", !.ret = [cal |-> "nil", err |-> validateCalendar(st.c).err]]
    ELSE [st EXCEPT !.p.pc = "returned", !.ret = [cal |-> "p.c", err |-> "nil"]]

\* parse(): err == errorDone, break, return p.c, nil
parseDone(st) == [st EXCEPT !.p.pc = "returned", !.ret = [cal |-> "p.c", err |-> "nil"]]

\* parser.enterScope, parser.leaveScope
enterScope(st) == [st EXCEPT !.p.scope = @ + 1]
leaveScope(st) == [st EXCEPT !.p.scope = @ - 1]

\* parser.backup
pbackup(st) == [st EXCEPT !.p.peekCount = @ + 1]

\* the nesting checks of scanDelimiter: p.scope > scopeEvent at END:VEVENT,
\* p.scope > scopeCalendar at END:VCALENDAR
insideAlarmOffByOne(st) == st.p.scope > scopeAlarm
insideAlarm(st) == st.p.scope > scopeEvent
insideComponent(st) == st.p.scope > scopeCalendar

\* scanDelimiter(delim) up to its call of p.next(), or to its return
scanDelimiter(st, delim) ==
    CASE delim.typ = itemBeginVEvent ->
            LET r == validateCalendar(st.c)
                st1 == [st EXCEPT !.c = r.c]
            IN IF r.err # "nil" THEN parseFails(st1, r.err)
               ELSE goOn(enterScope([st1 EXCEPT !.events = Append(@, NewEvent),
                                                !.p.v = Len(st.events) + 1]),
                         "scanDelimiter", 0)
      [] delim.typ = itemEndVEvent ->
            IF insideAlarm(st) THEN parseFails(st, "found END:VEVENT, expeced END:VALARM")
            ELSE IF st.p.v = 0 THEN panic(st)
            ELSE LET r == validateEvent(st.events[st.p.v])
                     st1 == [st EXCEPT !.events[st.p.v] = r.v]
                 IN IF r.panic THEN panic(st1)
                    ELSE IF r.err # "nil" THEN parseFails(st1, r.err)
                    ELSE goOn(leaveScope([st1 EXCEPT !.c.Events = Append(@, st.p.v)]),
                              "scanDelimiter", 0)
      [] delim.typ = itemBeginVAlarm ->
            goOn(enterScope([st EXCEPT !.alarms = Append(@, NewAlarm),
                                       !.p.a = Len(st.alarms) + 1]),
                 "scanDelimiter", 0)
      [] delim.typ = itemEndVAlarm ->
            IF st.p.a = 0 THEN panic(st)
            ELSE LET r == validateAlarm(st.alarms[st.p.a])
                     st1 == [st EXCEPT !.alarms[st.p.a] = r.a]
                 IN IF r.err # "nil" THEN parseFails(st1, r.err)
                    ELSE IF st.p.v = 0 THEN panic(st1)
                    ELSE goOn(leaveScope([st1 EXCEPT !.events[st.p.v].Alarms = Append(@, st.p.a)]),
                              "scanDelimiter", 0)
      [] delim.typ = itemEndVCalendar ->
            IF insideComponent(st)
            THEN parseFails(st, "found END:VCALENDAR, expeced END:VEVENT")
            ELSE parseDone(st)
      [] OTHER -> goOn(st, "scanContentLine", 0)

\* the end of scanContentLine: the property goes to the open component
appendProperty(st) ==
    LET prop == [Name |-> st.p.prop.Name, Params |-> st.p.prop.Params, Value |-> st.p.prop.Value] IN
    CASE st.p.scope = scopeCalendar -> [st EXCEPT !.c.Properties = Append(@, prop)]
      [] st.p.scope = scopeEvent ->
            IF st.p.v = 0 THEN panic(st)
            ELSE [st EXCEPT !.events[st.p.v].Properties = Append(@, prop)]
      [] st.p.scope = scopeAlarm ->
            IF st.p.a = 0 THEN panic(st)
            ELSE [st EXCEPT !.alarms[st.p.a].Properties = Append(@, prop)]
      [] OTHER -> st

\* parse(), with the token its p.next() returned
parse(st, item) ==
    CASE st.p.at = 0 ->
            IF item.typ # itemBeginVCalendar THEN parseFails(st, "expected BEGIN:VCALENDAR")
            ELSE goOn(st, "parse", 1)
      [] st.p.at = 1 ->
            IF item.typ # itemLineEnd THEN parseFails(st, "expected CRLF")
            ELSE goOn(st, "scanContentLine", 0)

\* scanContentLine() taking a comma after the name for the colon
scanContentLineCommaForColon(st, item) ==
    CASE st.p.at = 0 ->
            IF item.typ > itemKeyword THEN scanDelimiter(st, item)
            ELSE IF item.typ # itemName THEN parseFails(st, "expected a name token")
            ELSE goOn([st EXCEPT !.p.prop = [NewProperty EXCEPT !.Name = item.val]],
                      "scanParams", 0)
      [] st.p.at = 1 ->
            IF item.typ \notin {itemColon, itemComma} THEN parseFails(st, "expected :")
            ELSE goOn(st, "scanContentLine", 2)
      [] st.p.at = 2 ->
            IF item.typ # itemValue THEN parseFails(st, "expected a value")
            ELSE goOn([st EXCEPT !.p.prop.Value = item.val], "scanContentLine", 3)
      [] st.p.at = 3 ->
            IF item.typ # itemLineEnd THEN parseFails(st, "expected CRLF")
            ELSE LET r == appendProperty(st) IN
                 IF r.p.pc = "panic" THEN r ELSE goOn(r, "scanContentLine", 0)

\* scanContentLine(): at = 0 is name := p.next(), at = 1 the colon,
\* at = 2 the value, at = 3 the line end
scanContentLine(st, item) ==
    CASE st.p.at = 0 ->
            IF item.typ > itemKeyword THEN scanDelimiter(st, item)
            ELSE IF item.typ # itemName THEN parseFails(st, "expected a name token")
            ELSE goOn([st EXCEPT !.p.prop = [NewProperty EXCEPT !.Name = item.val]],
                      "scanParams", 0)
      [] st.p.at = 1 ->
            IF item.typ # itemColon THEN parseFails(st, "expected :")
            ELSE goOn(st, "scanContentLine", 2)
      [] st.p.at = 2 ->
            IF item.typ # itemValue THEN parseFails(st, "expected a value")
            ELSE goOn([st EXCEPT !.p.prop.Value = item.val], "scanContentLine", 3)
      [] st.p.at = 3 ->
            IF item.typ # itemLineEnd THEN parseFails(st, "expected CRLF")
            ELSE LET r == appendProperty(st) IN
                 IF r.p.pc = "panic" THEN r ELSE goOn(r, "scanContentLine", 0)

\* the line end scanDelimiter asks for after a BEGIN or END it accepted
scanDelimiterLineEnd(st, item) ==
    IF item.typ # itemLineEnd THEN parseFails(st, "expected CRLF")
    ELSE goOn(st, "scanContentLine", 0)

\* scanParams(prop) backing up once more than it read
scanParamsBackupTwice(st, item) ==
    CASE st.p.at = 0 ->
            IF item.typ # itemSemiColon THEN goOn(pbackup(pbackup(st)), "scanContentLine", 1)
            ELSE goOn(st, "scanParams", 1)
      [] st.p.at = 1 ->
            IF item.typ # itemParamName THEN parseFails(st, "expected a param-name")
            ELSE goOn([st EXCEPT !.p.paramName = item.val, !.p.param = NewParam],
                      "scanParams", 2)
      [] st.p.at = 2 ->
            IF item.typ # itemEqual THEN parseFails(st, "expected =")
            ELSE goOn(st, "scanValues", 0)

\* scanParams(prop): at = 0 the semicolon, at = 1 the param name, at = 2 the =
scanParams(st, item) ==
    CASE st.p.at = 0 ->
            IF item.typ # itemSemiColon THEN goOn(pbackup(st), "scanContentLine", 1)
            ELSE goOn(st, "scanParams", 1)
      [] st.p.at = 1 ->
            IF item.typ # itemParamName THEN parseFails(st, "expected a param-name")
            ELSE goOn([st EXCEPT !.p.paramName = item.val, !.p.param = NewParam],
                      "scanParams", 2)
      [] st.p.at = 2 ->
            IF item.typ # itemEqual THEN parseFails(st, "expected =")
            ELSE goOn(st, "scanValues", 0)

\* prop.Params[paramName.val] = param
setParam(params, name, param) ==
    [n \in DOMAIN params \cup {name} |-> IF n = name THEN param ELSE params[n]]

\* scanValues(param): at = 0 the first value, at = 1 the comma, at = 2 a
\* further value; on its return scanParams stores the param and loops
scanValues(st, item) ==
    CASE st.p.at = 0 ->
            IF item.typ # itemParamValue THEN parseFails(st, "expected a param-value")
            ELSE goOn([st EXCEPT !.p.param = Append(@, item.val)], "scanValues", 1)
      [] st.p.at = 1 ->
            IF item.typ # itemComma
            THEN goOn(pbackup([st EXCEPT !.p.prop.Params =
                                   setParam(@, st.p.paramName, st.p.param)]),
                      "scanParams", 0)
            ELSE goOn(st, "scanValues", 2)
      [] st.p.at = 2 ->
            IF item.typ # itemParamValue THEN parseFails(st, "expected a param-value")
            ELSE goOn([st EXCEPT !.p.param = Append(@, item.val)], "scanValues", 1)

\* parser.next(): it takes from the channel unless a token was backed up
CanNext == p.peekCount > 0 \/ CanReceive

\* the token p.next() returns
NextToken == IF p.peekCount > 0 THEN p.token[p.peekCount] ELSE Received

\* the parser after p.next()
afterNext ==
    IF p.peekCount > 0 THEN [p EXCEPT !.peekCount = @ - 1]
    ELSE [p EXCEPT !.token[1] = Received]

current == [p |-> afterNext, c |-> c, events |-> events, alarms |-> alarms, ret |-> ret]

ParserApply(st) ==
    /\ p' = st.p
    /\ c' = st.c
    /\ events' = st.events
    /\ alarms' = st.alarms
    /\ ret' = st.ret
    /\ IF p.peekCount > 0 THEN UNCHANGED <<input, l, items, closed, sent, recv>>
       ELSE nextItem
    /\ UNCHANGED tl

Parse == p.pc = "parse" /\ Alive /\ CanNext /\ \E st \in {parse(current, NextToken)} : ParserApply(st)
ScanContentLine == p.pc = "scanContentLine" /\ Alive /\ CanNext /\ \E st \in {scanContentLine(current, NextToken)} : ParserApply(st)
ScanDelimiter == p.pc = "scanDelimiter" /\ Alive /\ CanNext /\ \E st \in {scanDelimiterLineEnd(current, NextToken)} : ParserApply(st)
ScanParams == p.pc = "scanParams" /\ Alive /\ CanNext /\ \E st \in {scanParams(current, NextToken)} : ParserApply(st)
ScanValues == p.pc = "scanValues" /\ Alive /\ CanNext /\ \E st \in {scanValues(current, NextToken)} : ParserApply(st)

ParserNext ==
    \/ Parse
    \/ ScanContentLine
    \/ ScanDelimiter
    \/ ScanParams
    \/ ScanValues


(***************************************************************************)
(* Parse(r): the text read, unfolded, scanned and parsed                   *)
(***************************************************************************)
\* unfold(text): strings.Replace(text, "\r\n ", "", -1).  Two occurrences of
\* "\r\n " cannot overlap, so every character of every occurrence goes.
fold == <<CR, LF, " ">>
inFold(text, i) ==
    \E k \in {i - 2, i - 1, i} :
        k >= 1 /\ k + 2 <= Len(text) /\ SubSeq(text, k, k + 2) = fold
\* the characters of text[lo..hi] that stay
RECURSIVE unfolded(_, _, _)
unfolded(text, lo, hi) ==
    IF lo > hi THEN <<>>
    ELSE IF lo = hi THEN (IF inFold(text, lo) THEN <<>> ELSE <<text[lo]>>)
    ELSE LET mid == (lo + hi) \div 2 IN
         unfolded(text, lo, mid) \o unfolded(text, mid + 1, hi)
unfold(text) == unfolded(text, 1, Len(text))

\* the state in which Parse calls p.parse(): the scanner goroutine started
notReturned == [cal |-> "none", err |-> "none"]

ParseInit(text) ==
    /\ input = unfold(text)
    /\ l = lex
    /\ items = <<>>
    /\ closed = FALSE
    /\ sent = <<>>
    /\ recv = <<>>
    /\ tl = [pc |-> "idle", failed |-> FALSE]
    /\ p = newParser
    /\ c = NewCalendar
    /\ events = <<>>
    /\ alarms = <<>>
    /\ ret = notReturned

\* the state in which TestLex enters its loop
TestLexInit(text) ==
    /\ input = text
    /\ l = lex
    /\ items = <<>>
    /\ closed = FALSE
    /\ sent = <<>>
    /\ recv = <<>>
    /\ tl = [pc |-> "run", failed |-> FALSE]
    /\ p = [newParser EXCEPT !.pc = "idle"]
    /\ c = NewCalendar
    /\ events = <<>>
    /\ alarms = <<>>
    /\ ret = notReturned

(***************************************************************************)
(* Format (format.go, kept in src/README.md)                               *)
(***************************************************************************)
\* a line
Ln(chars) == chars \o crlf

\* the concatenation of a sequence of texts
RECURSIVE Concat(_)
Concat(ss) == IF ss = <<>> THEN <<>> ELSE Head(ss) \o Concat(Tail(ss))

\* strconv.Quote(v), for the characters of the model
quoteChar(ch) ==
    CASE ch = "\"" -> <<"\\", "\"">>
      [] ch = "\\" -> <<"\\", "\\">>
      [] ch = CR -> <<"\\", "r">>
      [] ch = LF -> <<"\\", "n">>
      [] OTHER -> <<ch>>

Quote(v) == <<"\"">> \o Concat([i \in 1..Len(v) |-> quoteChar(v[i])]) \o <<"\"">>

\* the loop over param.Values of formatProperty
formatValues(values) ==
    Concat([i \in 1..Len(values) |->
                (IF i > 1 THEN <<",">> ELSE <<>>) \o Quote(values[i])])

\* formatProperty(w, prop): what it writes.  ord lists the param names in
\* the order in which range visits a map.
formatProperty(prop, ord) ==
    LET has(n) == n \in DOMAIN prop.Params
        names == SelectSeq(ord, has)
    IN prop.Name
       \o Concat([i \in 1..Len(names) |->
                    <<";">> \o names[i] \o <<"=">> \o formatValues(prop.Params[names[i]])])
       \o <<":">> \o prop.Value \o crlf

\* formatPropertiesList(w, props)
formatPropertiesList(props, ord) ==
    Concat([i \in 1..Len(props) |-> formatProperty(props[i], ord)])

\* setProperties(l, newProps): the first property of l of each new name is
\* replaced, the new properties whose name l lacks are appended
Reverse(seq) == [i \in 1..Len(seq) |-> seq[Len(seq) + 1 - i]]
setPropertiesInMapOrder(list, newProps) ==
    LET absent(q) == \A i \in 1..Len(list) : list[i].Name # q.Name
    IN list \o Reverse(SelectSeq(newProps, absent))
setProperties(list, newProps) ==
    LET m(name) == newProps[CHOOSE k \in 1..Len(newProps) :
                        /\ newProps[k].Name = name
                        /\ \A j \in (k + 1)..Len(newProps) : newProps[j].Name # name]
        inM(name) == \E k \in 1..Len(newProps) : newProps[k].Name = name
        first(i) == \A j \in 1..(i - 1) : list[j].Name # list[i].Name
        absent(q) == \A i \in 1..Len(list) : list[i].Name # q.Name
    IN [i \in 1..Len(list) |->
            IF inM(list[i].Name) /\ first(i) THEN m(list[i].Name) ELSE list[i]]
       \o SelectSeq(newProps, absent)

\* &Property{Name: name, Value: value}
typedProperty(name, value) == [Name |-> name, Params |-> NoParams, Value |-> value]

nonEmpty(prop) == prop.Value # <<>>

\* the props Format makes of the typed fields of a calendar
calendarProps(cal) ==
    SelectSeq(<<typedProperty(sPRODID, cal.Prodid), typedProperty(sVERSION, cal.Version),
                typedProperty(sCALSCALE, cal.Calscale), typedProperty(sMETHOD, cal.Method)>>,
              nonEmpty)

\* the props formatEvent makes of the typed fields of an event: a zero time
\* gives none
timeProperty(name, t) == typedProperty(name, IF IsZero(t) THEN <<>> ELSE timeFormat(t))

eventProps(event) ==
    SelectSeq(<<typedProperty(sUID, event.UID), timeProperty(sDTSTAMP, event.Timestamp),
                timeProperty(sDTSTART, event.StartDate), timeProperty(sDTEND, event.EndDate),
                typedProperty(sSUMMARY, event.Summary),
                typedProperty(sDESCRIPTION, event.Description)>>,
              nonEmpty)

\* the props formatAlarm makes of the typed fields of an alarm
alarmProps(alarm) ==
    SelectSeq(<<typedProperty(sACTION, alarm.Action), typedProperty(sTRIGGER, alarm.Trigger)>>,
              nonEmpty)

\* formatAlarm(w, alarm): the alarm as it leaves it, and what it writes
formatAlarm(alarm, ord) ==
    LET properties == setProperties(alarm.Properties, alarmProps(alarm))
    IN [alarm |-> [alarm EXCEPT !.Properties = properties],
        text |-> Ln(beginVAlarm) \o formatPropertiesList(properties, ord) \o Ln(endVAlarm)]

\* formatEvent(w, event): the event as it leaves it, and what it writes;
\* al is the heap of alarms
formatEvent(event, al, ord) ==
    LET properties == setProperties(event.Properties, eventProps(event))
    IN [event |-> [event EXCEPT !.Properties = properties],
        text |-> Ln(beginVEvent) \o formatPropertiesList(properties, ord)
                 \o Concat([i \in 1..Len(event.Alarms) |->
                                formatAlarm(al[event.Alarms[i]], ord).text])
                 \o Ln(endVEvent)]

\* Format(w, cal) on the calendar cal with the heaps ev and al: the
\* calendar and the heaps as it leaves them, and what it writes.  Setting the
\* properties of an object a second time changes nothing, so every object
\* written is left as its first formatting leaves it.
Format(cal, ev, al, ord) ==
    LET properties == setProperties(cal.Properties, calendarProps(cal))
        written == {cal.Events[i] : i \in 1..Len(cal.Events)}
        rung == UNION {{ev[e].Alarms[i] : i \in 1..Len(ev[e].Alarms)} : e \in written}
    IN [c |-> [cal EXCEPT !.Properties = properties],
        events |-> [e \in DOMAIN ev |->
                        IF e \in written THEN formatEvent(ev[e], al, ord).event ELSE ev[e]],
        alarms |-> [a \in DOMAIN al |->
                        IF a \in rung THEN formatAlarm(al[a], ord).alarm ELSE al[a]],
        text |-> Ln(beginVCalendar) \o formatPropertiesList(properties, ord)
                 \o Concat([i \in 1..Len(cal.Events) |->
                                formatEvent(ev[cal.Events[i]], al, ord).text])
                 \o Ln(endVCalendar)]

(***************************************************************************)
(* The texts the model reads                                               *)
(***************************************************************************)

\* all sequences of at most n elements of S
RECURSIVE SeqsUpTo(_, _)
SeqsUpTo(S, n) ==
    IF n = 0 THEN {<<>>}
    ELSE LET shorter == SeqsUpTo(S, n - 1) IN
         shorter \cup {Append(s, x) : s \in shorter, x \in S}

Prop(name) == Ln(name \o <<":", "x">>)
PropV(name, value) == Ln(name \o <<":">> \o value)


\* a valid calendar opening, a valid event opening, a valid alarm opening
calOpen == <<Ln(beginVCalendar), Prop(sPRODID), Prop(sVERSION)>>
evOpen == <<Ln(beginVEvent), Prop(sUID), Prop(sDTSTAMP), Prop(sDTSTART)>>
alOpen == <<Ln(beginVAlarm), Prop(sACTION), Prop(sTRIGGER)>>
evDated == <<Ln(beginVEvent), Prop(sUID), PropV(sDTSTAMP, dUTC), PropV(sDTSTART, dUTC)>>

\* the beginnings of the texts: the empty one, and calendars cut off at
\* calendar, event or alarm level, before and after components were closed
Openings ==
    { <<>>,
      <<Ln(beginVCalendar)>>,
      <<Ln(beginVCalendar), Prop(sPRODID)>>,
      calOpen,
      calOpen \o evOpen,
      calOpen \o evDated,
      calOpen \o evOpen \o alOpen,
      calOpen \o evOpen \o alOpen \o <<Ln(endVAlarm)>>,
      calOpen \o evOpen \o <<Ln(endVEvent)>>,
      calOpen \o evOpen \o alOpen \o <<Ln(endVAlarm), Ln(endVEvent)>>,
      calOpen \o evOpen \o <<Ln(endVEvent), Ln(beginVAlarm)>> \o alOpen
          \o <<Ln(endVAlarm), Prop(sUID)>>,
      calOpen \o evDated \o <<Ln(endVEvent), Ln(beginVAlarm)>> \o alOpen
          \o <<Ln(endVAlarm), PropV(sDTEND, dLater)>> }

\* a line with two params, the second with a quoted and a plain value
paramLine == Ln(<<"D","T","E","N","D",";","A","=","a",";","B","=","\"","b","\"",",","y",":","x">>)

\* the lines that continue an opening; the last two lack their CRLF
TailLines ==
    { Ln(endVCalendar), Ln(beginVEvent), Ln(endVEvent), Ln(beginVAlarm), Ln(endVAlarm),
      Prop(sPRODID), Prop(sUID), paramLine,
      endVEvent, <<"A", ";", "B", "=", "x">> }

MaxTail == 2

Texts == {Concat(o \o t) : o \in Openings, t \in SeqsUpTo(TailLines, MaxTail)}

Init == \E text \in Texts : ParseInit(text)

Next == LexerNext \/ ParserNext

Spec == Init /\ [][Next]_vars

(***************************************************************************)
(* The scanner alone, drained by TestLex                                   *)
(***************************************************************************)
LexChunks ==
    { beginVEvent, <<"A">>, <<";">>, <<":">>, <<",">>, <<"=">>, <<"\"">>,
      crlf, <<CR>>, <<" ">> }

MaxChunks == 4

LexTexts == {Concat(t) : t \in SeqsUpTo(LexChunks, MaxChunks)}

InitLex == \E text \in LexTexts : TestLexInit(text)

NextLex == LexerNext \/ TestLexNextItem

SpecLex == InitLex /\ [][NextLex]_vars


(***************************************************************************)
(* TestLex on lines the scanner's grammar accepts                          *)
(***************************************************************************)
\* delimiter lines, and content lines: a name, parameters with plain, quoted
\* and listed values, a colon and a value, each line ended by CRLF
GoodLines ==
    { Ln(beginVCalendar), Ln(endVCalendar), Ln(beginVEvent), Ln(endVEvent),
      Ln(<<"A", ":", "x">>),
      Ln(<<"A", ":">>),
      Ln(<<"X", "-", "A", ":", "a", " ", ":", ";", "\"", "=", ",">>),
      Ln(<<"A", ";", "B", "=", "x", ":", "y">>),
      Ln(<<"A", ";", "B", "=", ":", "y">>),
      Ln(<<"A", ";", "B", "=", "\"", "x", ";", ":", ",", "\"", ":", "y">>),
      Ln(<<"A", ";", "B", "=", "x", ",", "\"", "y", "\"", ";", "1", "=", "b", ":", "y">>) }

MaxLines == 2

GoodTexts == {Concat(t) : t \in SeqsUpTo(GoodLines, MaxLines) \ {<<>>}}

InitLines == \E text \in GoodTexts : TestLexInit(text)

\* the scanner's goroutine and the test's are both scheduled while they can
\* take a step
SpecLines ==
    InitLines /\ [][NextLex]_vars /\ WF_vars(LexerNext) /\ WF_vars(TestLexNextItem)


(***************************************************************************)
(* One event, its properties varied                                        *)
(***************************************************************************)
\* the required properties of an event, all or all but one
EventBases ==
    { <<Prop(sUID), Prop(sDTSTAMP), Prop(sDTSTART)>>,
      <<Prop(sDTSTAMP), Prop(sDTSTART)>>,
      <<Prop(sUID), Prop(sDTSTART)>>,
      <<Prop(sUID), Prop(sDTSTAMP)>> }

\* the lines added before or after them
ExtraLines ==
    { Prop(sUID), Prop(sDTSTAMP), Prop(sDTSTART), Prop(sDTEND), Prop(sDURATION),
      Prop(sSUMMARY), Prop(sDESCRIPTION), paramLine }

MaxExtra == 2

EventProps ==
    {b \o x : b \in EventBases, x \in SeqsUpTo(ExtraLines, MaxExtra)}
        \cup {x \o b : b \in EventBases, x \in SeqsUpTo(ExtraLines, MaxExtra)}

\* the calendar around the event: with and without a METHOD
EventHeads == {calOpen, calOpen \o <<Prop(sMETHOD)>>}

\* the calendars closed after the event, and those cut off after an
\* END:VEVENT that lacks its CRLF
EventTexts ==
    {Concat(h \o <<Ln(beginVEvent)>> \o e \o <<Ln(endVEvent), Ln(endVCalendar)>>) :
        h \in EventHeads, e \in EventProps}
    \cup {Concat(h \o <<Ln(beginVEvent)>> \o b \o <<endVEvent>>) :
        h \in EventHeads, b \in EventBases}

InitEvent == \E text \in EventTexts : ParseInit(text)

SpecEvent == InitEvent /\ [][Next]_vars


(***************************************************************************)
(* parseDate on its own, as TestParseDate calls it                         *)
(***************************************************************************)
DateValues == {dUTC, dLocal, dDate, dLeapDay, dNoSuchDay, dNoSuchHour, dShortZ, <<"x">>, <<>>}

sDATETIME == <<"D","A","T","E","-","T","I","M","E">>

\* the values of a TZID parameter: two zones LoadLocation finds, the empty
\* name, and two it does not find
ZoneNames == {zoneNewYork, zoneUTC, <<>>, <<"Z">>, <<"x">>}

\* Params holding the parameters of the domain D
ParamsOver(D, tzid, value) ==
    [n \in D |-> IF n = sTZID THEN <<tzid>> ELSE <<value>>]

DateParams ==
    {ParamsOver(D, z, v) : D \in SUBSET {sTZID, sVALUE}, z \in ZoneNames,
                           v \in {sDATE, sDATETIME}}

DateProps ==
    {[Name |-> sDTSTART, Params |-> ps, Value |-> v] : ps \in DateParams, v \in DateValues}

InitDate ==
    /\ input = <<>>
    /\ l = lex
    /\ items = <<>>
    /\ closed = FALSE
    /\ sent = <<>>
    /\ recv = <<>>
    /\ \E prop \in DateProps : tl = [pc |-> "parseDate", prop |-> prop]
    /\ p = [newParser EXCEPT !.pc = "idle"]
    /\ c = NewCalendar
    /\ events = <<>>
    /\ alarms = <<>>
    /\ ret = notReturned

\* TestParseDate: _, err := parseDate(prop)
TestParseDate ==
    /\ tl.pc = "parseDate"
    /\ tl' = [pc |-> "parsedDate", prop |-> tl.prop, got |-> parseDate(tl.prop)]
    /\ UNCHANGED <<input, l, items, closed, sent, recv, p, c, events, alarms, ret>>

SpecDate == InitDate /\ [][TestParseDate]_vars

(***************************************************************************)
(* Format on its own, as TestFormat calls it: on calendars built by hand,  *)
(* whose raw property lists are empty                                      *)
(***************************************************************************)
tStamp == [wall |-> SubSeq(dUTC, 1, 15), loc |-> "UTC", days |-> 0]
tStart == [wall |-> dLocal, loc |-> "America/New_York", days |-> 0]

\* the typed fields that can be set, and the choices of fields set: none,
\* one, all but one, all
CalendarFields == {sPRODID, sVERSION, sCALSCALE, sMETHOD}
EventFields == {sUID, sDTSTAMP, sDTSTART, sDTEND, sSUMMARY, sDESCRIPTION}
EventChoices == {S \in SUBSET EventFields : Cardinality(S) \in {0, 1, 5, 6}}

CalendarWith(S, n) ==
    [Properties |-> <<>>, Events |-> [i \in 1..n |-> i],
     Prodid |-> IF sPRODID \in S THEN <<"x">> ELSE <<>>,
     Version |-> IF sVERSION \in S THEN <<"2", ".", "0">> ELSE <<>>,
     Calscale |-> IF sCALSCALE \in S THEN sGREGORIAN ELSE <<>>,
     Method |-> IF sMETHOD \in S THEN <<"y">> ELSE <<>>]

EventWith(S) ==
    [Properties |-> <<>>, Alarms |-> <<>>,
     UID |-> IF sUID \in S THEN <<"x">> ELSE <<>>,
     Timestamp |-> IF sDTSTAMP \in S THEN tStamp ELSE zeroTime,
     StartDate |-> IF sDTSTART \in S THEN tStart ELSE zeroTime,
     EndDate |-> IF sDTEND \in S THEN AddDay(tStart) ELSE zeroTime,
     Summary |-> IF sSUMMARY \in S THEN <<"a", " ", "b">> ELSE <<>>,
     Description |-> IF sDESCRIPTION \in S THEN <<"y">> ELSE <<>>]

MaxFormatEvents == 2

\* the orders in which range can visit the names S of a map
Orders(S) ==
    {o \in [1..Cardinality(S) -> S] : \A i, j \in 1..Cardinality(S) : o[i] = o[j] => i = j}

\* the param names of the properties of a calendar, its events and alarms
paramNames(cal, ev, al) ==
    UNION ( {DOMAIN cal.Properties[i].Params : i \in 1..Len(cal.Properties)}
            \cup UNION {{DOMAIN ev[e].Properties[i].Params : i \in 1..Len(ev[e].Properties)} :
                            e \in DOMAIN ev}
            \cup UNION {{DOMAIN al[a].Properties[i].Params : i \in 1..Len(al[a].Properties)} :
                            a \in DOMAIN al} )

InitFormat ==
    /\ input = <<>>
    /\ l = lex
    /\ items = <<>>
    /\ closed = FALSE
    /\ sent = <<>>
    /\ recv = <<>>
    /\ tl = [pc |-> "format"]
    /\ p = [newParser EXCEPT !.pc = "idle"]
    /\ \E S \in SUBSET CalendarFields, vs \in SeqsUpTo(EventChoices, MaxFormatEvents) :
        /\ c = CalendarWith(S, Len(vs))
        /\ events = [i \in 1..Len(vs) |-> EventWith(vs[i])]
    /\ alarms = <<>>
    /\ ret = notReturned

\* TestFormat: Format(&buf, cal)
TestFormat ==
    /\ tl.pc = "format"
    /\ \E ord \in Orders(paramNames(c, events, alarms)) :
        \E f \in {Format(c, events, alarms, ord)} :
            /\ tl' = [pc |-> "formatted", text |-> f.text]
            /\ c' = f.c
            /\ events' = f.events
            /\ alarms' = f.alarms
    /\ UNCHANGED <<input, l, items, closed, sent, recv, p, ret>>

SpecFormat == InitFormat /\ [][TestFormat]_vars

(***************************************************************************)
(* Parse, then Format, then Parse again                                    *)
(***************************************************************************)
\* a line with a TZID or a VALUE parameter
ParamProp(name, param, pvalue, value) ==
    Ln(name \o <<";">> \o param \o <<"=">> \o pvalue \o <<":">> \o value)

\* the forms of a date property: UTC, floating, in a zone, a date
DateLines(name, utc, local, date) ==
    { PropV(name, utc), PropV(name, local),
      ParamProp(name, sTZID, zoneNewYork, local),
      ParamProp(name, sTZID, zoneUTC, local),
      ParamProp(name, sVALUE, sDATE, date) }

dLaterLocal == <<"1","9","9","8","0","1","2","1","T","0","2","0","0","0","0">>
dLaterDate == <<"1","9","9","8","0","1","2","1">>

\* how an event ends: with the default, with a DURATION, with a DTEND
EventEndings ==
    {<<>>, <<Prop(sDURATION)>>}
        \cup {<<line>> : line \in DateLines(sDTEND, dLater, dLaterLocal, dLaterDate)}

\* well-formed calendars of one event
WellFormedTexts ==
    {Concat(calOpen \o <<Ln(beginVEvent), Prop(sUID), PropV(sDTSTAMP, dUTC), start>>
            \o ending \o more \o <<Ln(endVEvent), Ln(endVCalendar)>>) :
        start \in DateLines(sDTSTART, dUTC, dLocal, dDate),
        ending \in EventEndings,
        more \in {<<>>, <<Prop(sSUMMARY), Prop(sDESCRIPTION)>>}}

\* a calendar that stops after its event
cutOff ==
    Concat(calOpen \o <<Ln(beginVEvent), Prop(sUID), PropV(sDTSTAMP, dUTC),
                        PropV(sDTSTART, dUTC), Ln(endVEvent)>>)

RoundTexts == WellFormedTexts \cup {cutOff}

InitRound == \E text \in RoundTexts : ParseInit(text)

\* cal, err := Parse(r); Format(&buf, cal); Parse(&buf): from the return of
\* the first Parse to the start of the second, which reads what Format wrote
\* with a lexer and a parser of its own
FormatAndParse ==
    /\ tl.pc = "idle"
    /\ p.pc = "returned" /\ ret.err = "nil"
    /\ \E ord \in Orders(paramNames(c, events, alarms)) :
        \E f \in {Format(c, events, alarms, ord)} :
            /\ tl' = [pc |-> "again", failed |-> FALSE,
                      c |-> f.c, events |-> f.events, text |-> f.text]
            /\ input' = unfold(f.text)
    /\ l' = lex
    /\ items' = <<>>
    /\ closed' = FALSE
    /\ sent' = <<>>
    /\ recv' = <<>>
    /\ p' = newParser
    /\ c' = NewCalendar
    /\ events' = <<>>
    /\ alarms' = <<>>
    /\ ret' = notReturned

NextRound == LexerNext \/ ParserNext \/ FormatAndParse

SpecRound == InitRound /\ [][NextRound]_vars

(***************************************************************************)
(* Lines of all shapes inside an event                                     *)
(***************************************************************************)
\* the pieces the lines are put together from: a name or a value, the start
\* of a param, the punctuation, a quote, the end of a line with and without
\* a value before it
LinePieces ==
    { <<"A">>, <<";", "B", "=">>, <<",">>, <<":">>, <<"\"">>,
      <<":", "y">> \o crlf, crlf }

MaxPieces == 4

LineTexts ==
    {Concat(calOpen \o <<Ln(beginVEvent)>> \o t) : t \in SeqsUpTo(LinePieces, MaxPieces)}

InitLine == \E text \in LineTexts : ParseInit(text)

SpecLine == InitLine /\ [][Next]_vars

(***************************************************************************)
(* Properties                                                              *)
(***************************************************************************)
\* Parse has returned
Returned == ret # notReturned
ReturnedError == Returned /\ ret.err # "nil"
ReturnedCalendar == Returned /\ ret.err = "nil"

\* this step is the parser's, taking a token of type typ as the first of a
\* content line
Consumes(typ) ==
    /\ p.pc = "scanContentLine" /\ p.at = 0
    /\ p' # p
    /\ NextToken.typ = typ

\* this step makes Parse return an error
Fails == p'.pc = "returned" /\ ret' # notReturned /\ ret'.err # "nil"

\* how many properties of a list carry a name
Named(properties, name) ==
    Cardinality({i \in 1..Len(properties) : properties[i].Name = name})

\* C1: Parse returns either a calendar and no error, or no calendar and an
\* error; an error raised anywhere makes the calendar returned nil, whatever
\* had been parsed before.
C1_CalendarOrError ==
    /\ Returned <=> p.pc = "returned"
    /\ Returned =>
        \/ ret.err = "nil" /\ ret.cal = "p.c"
        \/ ret.err # "nil" /\ ret.cal = "nil"

\* Parse has returned an error after an event had been appended
C1_ErrorAfterEvent == ReturnedError /\ ret.cal = "nil" /\ Len(c.Events) > 0

\* C2: an error token is emitted at most once and is the last token the lexer
\* emits.
C2_ErrorTokenIsLast ==
    \A i \in 1..Len(sent) : sent[i].typ = itemError => i = Len(sent)

\* C3: the lexer hands over one token at a time: at most one emitted token
\* awaits the parser, the lexer scans no further while one does, and the
\* parser receives the tokens in the order emitted, none lost or duplicated.
C3_OneTokenAtATime ==
    /\ [](Len(items) <= 1 /\ sent = recv \o items)
    /\ [][items # <<>> => (l'.pos = l.pos /\ l'.start = l.start /\ sent' = sent)]_vars

\* the parser has received tokens and the lexer waits with the next one
C3_TokenAwaited == Len(recv) >= 2 /\ Len(items) = 1 /\ l.state # "nil"

\* C4: Parse eventually returns on every input.  Every step consumes input or
\* a token, so this says that Parse has returned whenever no step is possible.
C4_ParseReturns == Returned \/ ENABLED Next

\* C5: END:VEVENT met inside an alarm, and END:VCALENDAR met inside an event
\* or an alarm, make Parse return an error; no event is appended.
C5_OuterEndInsideInner ==
    [][ /\ (Consumes(itemEndVEvent) /\ p.scope = scopeAlarm)
            => (Fails /\ c'.Events = c.Events)
        /\ (Consumes(itemEndVCalendar) /\ p.scope \in {scopeEvent, scopeAlarm})
            => (Fails /\ c'.Events = c.Events) ]_vars

\* Parse returned an error at an END:VEVENT met inside an alarm
C5_EndVEventInAlarm ==
    /\ ReturnedError
    /\ p.token[1].typ = itemEndVEvent
    /\ p.scope = scopeAlarm

\* C6: END:VALARM met outside an alarm makes Parse return an error; no alarm
\* is validated or appended and the scope is not popped.
C6_EndVAlarmOutsideAlarm ==
    [][ (Consumes(itemEndVAlarm) /\ p.scope # scopeAlarm)
            => (Fails /\ events' = events /\ p'.scope = p.scope) ]_vars

\* C7: at a BEGIN:VEVENT, a calendar without exactly one PRODID and
\* exactly one VERSION makes Parse return an error.
C7_CalendarNeedsBoth ==
    [][ ( /\ Consumes(itemBeginVEvent)
          /\ \/ Named(c.Properties, sPRODID) # 1
             \/ Named(c.Properties, sVERSION) # 1 )
            => Fails ]_vars

\* C8: every event of a calendar Parse returns has exactly one UID and one
\* DTSTART, and at most one DTSTAMP, DTEND, DURATION, SUMMARY and DESCRIPTION.
C8_ReturnedEventsValid ==
    ReturnedCalendar =>
        \A i \in 1..Len(c.Events) :
            LET properties == events[c.Events[i]].Properties
            IN /\ Named(properties, sUID) = 1
               /\ Named(properties, sDTSTART) = 1
               /\ \A name \in {sDTSTAMP, sDTEND, sDURATION, sSUMMARY, sDESCRIPTION} :
                    Named(properties, name) <= 1

\* an event in order but for its DTSTAMP, which it lacks
LacksOnlyDTSTAMP(properties) ==
    /\ Named(properties, sUID) = 1
    /\ Named(properties, sDTSTART) = 1
    /\ Named(properties, sDTSTAMP) = 0
    /\ \A name \in {sDTEND, sDURATION, sSUMMARY, sDESCRIPTION} :
            Named(properties, name) <= 1
    /\ Named(properties, sDTEND) + Named(properties, sDURATION) <= 1

\* C9: an event that lacks only its DTSTAMP is accepted at END:VEVENT when the
\* calendar has a METHOD, and makes Parse return an error when it has none.
C9_DTSTAMPUnlessMethod ==
    [][ ( /\ Consumes(itemEndVEvent)
          /\ p.scope = scopeEvent /\ p.v # 0
          /\ LacksOnlyDTSTAMP(events[p.v].Properties) )
            => IF Named(c.Properties, sMETHOD) > 0
               THEN ~Fails /\ c'.Events = Append(c.Events, p.v)
               ELSE Fails ]_vars

\* C10: an event with both a DTEND and a DURATION makes Parse return an error
\* at END:VEVENT and is not appended to the calendar.
C10_DTENDOrDURATION ==
    [][ ( /\ Consumes(itemEndVEvent)
          /\ p.v # 0
          /\ Named(events[p.v].Properties, sDTEND) > 0
          /\ Named(events[p.v].Properties, sDURATION) > 0 )
            => Fails /\ c'.Events = c.Events ]_vars

\* Parse returned an error at the END:VEVENT of an event whose only fault is
\* to have both
C10_BothRejected ==
    /\ ReturnedError
    /\ p.token[1].typ = itemEndVEvent
    /\ p.scope = scopeEvent /\ p.v # 0
    /\ \A name \in {sUID, sDTSTAMP, sDTSTART, sDTEND, sDURATION} :
            Named(events[p.v].Properties, name) = 1
    /\ Len(events[p.v].Properties) = 5
    /\ c.Events = <<>>


\* two times are the same instant: the same wall clock in the same zone
SameInstant(t, u) == Wall(t) = Wall(u) /\ t.loc = u.loc

\* C11: in a calendar Parse returns, an event without DTEND ends 24 hours
\* after it starts, and an event with a DTEND ends at the resolved DTEND.
C11_EndDate ==
    ReturnedCalendar =>
        \A i \in 1..Len(c.Events) :
            LET v == events[c.Events[i]]
            IN IF Named(v.Properties, sDTEND) = 0
               THEN v.EndDate = [v.StartDate EXCEPT !.days = @ + 1]
               ELSE \E j \in 1..Len(v.Properties) :
                        /\ v.Properties[j].Name = sDTEND
                        /\ SameInstant(v.EndDate, parseDate(v.Properties[j]).t)

\* the same instant, on a machine whose local zone is UTC
SameInstantAtBest(t, u) ==
    /\ Wall(t) = Wall(u)
    /\ t.loc = u.loc \/ {t.loc, u.loc} = {"Local", "UTC"}

\* C12: Parse, Format, Parse of a well-formed calendar gives the Prodid and
\* Version and the events' UID, StartDate, EndDate, Summary and Description of
\* the first Parse, the dates as instants.
C12_RoundTrip ==
    (tl.pc = "again" /\ (Returned \/ p.pc = "panic")) =>
        /\ ReturnedCalendar
        /\ c.Prodid = tl.c.Prodid
        /\ c.Version = tl.c.Version
        /\ Len(c.Events) = Len(tl.c.Events)
        /\ \A i \in 1..Len(c.Events) :
            LET v == events[c.Events[i]]
                w == tl.events[tl.c.Events[i]]
            IN /\ v.UID = w.UID
               /\ SameInstantAtBest(v.StartDate, w.StartDate)
               /\ SameInstantAtBest(v.EndDate, w.EndDate)
               /\ v.Summary = w.Summary
               /\ v.Description = w.Description

\* the tokens of a type among the tokens ts
OfType(ts, typ) == {i \in 1..Len(ts) : ts[i].typ = typ}

\* C16: on lines the scanner's grammar accepts, each ended by CRLF, the test
\* that calls nextItem until EOF receives no error token and in the end
\* exactly one EOF token, which is the last token emitted and comes straight
\* after the line-end token of the last line.
C16_EndOfInput ==
    /\ [](OfType(sent, itemError) = {} /\ ~tl.failed)
    /\ [](\A i \in OfType(sent, itemEOF) :
            /\ i = Len(sent) /\ i > 1
            /\ sent[i - 1].typ = itemLineEnd
            /\ sent[i - 1].pos = Len(input) - Len(crlf))
    /\ <>[](/\ tl.pc = "done"
            /\ recv = sent
            /\ Cardinality(OfType(recv, itemEOF)) = 1)

\* the test left its loop at EOF after a line with two parameters
C16_ReceivedEOF ==
    /\ tl.pc = "done"
    /\ recv[Len(recv)].typ = itemEOF
    /\ Cardinality(OfType(recv, itemParamName)) >= 2
    /\ Cardinality(OfType(recv, itemLineEnd)) = MaxLines

\* Parse stopped asking for tokens, having received neither EOF nor an error
StoppedEarly ==
    Returned /\ OfType(recv, itemEOF) = {} /\ OfType(recv, itemError) = {}

\* the text after the last token received
AfterLast(lit) ==
    /\ recv # <<>>
    /\ HasPrefix(recv[Len(recv)].pos + Len(recv[Len(recv)].val), lit)

lineEndAfterLast ==
    [typ |-> itemLineEnd, pos |-> recv[Len(recv)].pos + Len(recv[Len(recv)].val),
     val |-> crlf]

C18_ScopeDepth == p.scope \in {scopeCalendar, scopeEvent, scopeAlarm}

\* C19: BEGIN:VALARM met at calendar scope, with no event open, makes Parse
\* return an error.
C19_AlarmNeedsEvent ==
    [][(Consumes(itemBeginVAlarm) /\ p.scope = scopeCalendar) => Fails]_vars

\* C20: a calendar returned by Parse has as many events as BEGIN:VEVENT
\* delimiters were consumed, and as many as END:VEVENT delimiters, and no
\* event is in Calendar.Events twice.
C20_EventCount ==
    ReturnedCalendar =>
        /\ Len(c.Events) = Cardinality(OfType(recv, itemBeginVEvent))
        /\ Len(c.Events) = Cardinality(OfType(recv, itemEndVEvent))
        /\ \A i, j \in 1..Len(c.Events) : c.Events[i] = c.Events[j] => i = j

\* the tokens received are BEGIN:VCALENDAR, lines without a delimiter, and
\* END:VCALENDAR as the last
CalendarWithoutEvent ==
    /\ Len(recv) >= 2
    /\ recv[1].typ = itemBeginVCalendar
    /\ recv[Len(recv)].typ = itemEndVCalendar
    /\ \A i \in 2..(Len(recv) - 1) : recv[i].typ <= itemKeyword

\* C21: the calendar is validated at BEGIN:VEVENT only: Parse of
\* BEGIN:VCALENDAR ... END:VCALENDAR with no VEVENT returns the calendar and
\* no error, PRODID and VERSION present or not.
C21_NoEventNoValidation ==
    (Returned /\ CalendarWithoutEvent) => ReturnedCalendar

\* Parse returned a calendar that has no event and no PRODID
C21_ReturnedWithoutProdid ==
    /\ ReturnedCalendar /\ CalendarWithoutEvent
    /\ c.Events = <<>>
    /\ Named(c.Properties, sPRODID) = 0

\* the value of a DTSTAMP, DTSTART or DTEND property does not resolve
DateFails(prop) ==
    \/ prop.Name = sDTSTAMP /\ ~timeParse(dateTimeLayoutUTC, prop.Value).ok
    \/ /\ prop.Name \in {sDTSTART, sDTEND}
       /\ ~parseDate(prop).ok /\ ~parseDate(prop).panic

\* the properties of an event pass the checks of presence and cardinality
PresentOnce(properties) ==
    /\ \A name \in {sUID, sDTSTAMP, sDTSTART} : Named(properties, name) = 1
    /\ \A name \in {sDTEND, sDURATION, sSUMMARY, sDESCRIPTION} :
            Named(properties, name) <= 1
    /\ Named(properties, sDTEND) + Named(properties, sDURATION) <= 1

\* C22: a DTSTAMP, DTSTART or DTEND whose value does not resolve does not
\* make Parse fail: an event that has its properties once is accepted at
\* END:VEVENT whatever their values, and the typed field of each date that
\* did not resolve is the zero time.
C22_FailedDatesKeepZero ==
    [][ ( /\ Consumes(itemEndVEvent)
          /\ p.scope <= scopeEvent /\ p.v # 0
          /\ PresentOnce(events[p.v].Properties)
          /\ \E i \in 1..Len(events[p.v].Properties) : DateFails(events[p.v].Properties[i])
          /\ \A i \in 1..Len(events[p.v].Properties) :
                events[p.v].Properties[i].Name \in {sDTSTART, sDTEND}
                    => ~parseDate(events[p.v].Properties[i]).panic )
            => ( /\ ~Fails /\ p'.pc # "panic"
                 /\ c'.Events = Append(c.Events, p.v)
                 /\ \A i \in 1..Len(events[p.v].Properties) :
                        LET prop == events[p.v].Properties[i] IN
                        DateFails(prop) =>
                            CASE prop.Name = sDTSTAMP -> events'[p.v].Timestamp = zeroTime
                              [] prop.Name = sDTSTART -> events'[p.v].StartDate = zeroTime
                              [] prop.Name = sDTEND -> events'[p.v].EndDate = zeroTime ) ]_vars

\* Parse accepted an event whose DTSTART resolved and whose DTEND did not
C22_AcceptedWithBadDate ==
    /\ p.pc # "panic" /\ ~ReturnedError
    /\ \E j \in 1..Len(events) :
        /\ \E i \in 1..Len(c.Events) : c.Events[i] = j
        /\ events[j].StartDate # zeroTime
        /\ events[j].EndDate = zeroTime
        /\ \E i \in 1..Len(events[j].Properties) :
            events[j].Properties[i].Name = sDTEND /\ DateFails(events[j].Properties[i])

\* this step takes the line end of a content line and goes on to the next line
AcceptsLine ==
    /\ p.pc = "scanContentLine" /\ p.at = 3
    /\ p' # p
    /\ NextToken.typ = itemLineEnd
    /\ p'.pc = "scanContentLine"

\* the raw property lists of the events, of the alarms
EventLists(es) == [i \in 1..Len(es) |-> es[i].Properties]
AlarmLists(as) == [i \in 1..Len(as) |-> as[i].Properties]

\* C23: a content line the parser accepts appends one Property at the end of
\* the raw list of the component open at that moment (the calendar at scope
\* 0, the current event at scope 1, the current alarm at scope 2) and leaves
\* every other list as it was; no accepted line is dropped.
C23_OnePropertyAppended ==
    [][ AcceptsLine =>
        LET prop == [Name |-> p.prop.Name, Params |-> p.prop.Params, Value |-> p.prop.Value] IN
        \/ /\ p.scope = scopeCalendar
           /\ c'.Properties = Append(c.Properties, prop)
           /\ EventLists(events') = EventLists(events)
           /\ AlarmLists(alarms') = AlarmLists(alarms)
        \/ /\ p.scope = scopeEvent /\ p.v # 0
           /\ c'.Properties = c.Properties
           /\ EventLists(events') =
                [EventLists(events) EXCEPT ![p.v] = Append(@, prop)]
           /\ AlarmLists(alarms') = AlarmLists(alarms)
        \/ /\ p.scope = scopeAlarm /\ p.a # 0
           /\ c'.Properties = c.Properties
           /\ EventLists(events') = EventLists(events)
           /\ AlarmLists(alarms') =
                [AlarmLists(alarms) EXCEPT ![p.a] = Append(@, prop)] ]_vars

\* the tokens the parser has taken: those received, but for one it put back
Taken == IF p.peekCount > 0 THEN SubSeq(recv, 1, Len(recv) - 1) ELSE recv

\* where the line begins that the last of the tokens ts belongs to: after the
\* last line end before it
LineStart(ts) ==
    LET ends == {i \in 1..(Len(ts) - 1) : ts[i].typ = itemLineEnd}
    IN IF ends = {} THEN 1 ELSE 1 + CHOOSE i \in ends : \A j \in ends : j <= i

\* the types of the tokens of that line
LineTypes(ts) ==
    [i \in 1..(Len(ts) - LineStart(ts) + 1) |-> ts[LineStart(ts) + i - 1].typ]

\* the grammar name (';' param-name '=' param-value (',' param-value)*)* ':'
\* value line-end: the token types that may follow a token of a type
Follows(typ) ==
    CASE typ = itemName -> {itemSemiColon, itemColon}
      [] typ = itemSemiColon -> {itemParamName}
      [] typ = itemParamName -> {itemEqual}
      [] typ = itemEqual -> {itemParamValue}
      [] typ = itemParamValue -> {itemComma, itemSemiColon, itemColon}
      [] typ = itemComma -> {itemParamValue}
      [] typ = itemColon -> {itemValue}
      [] typ = itemValue -> {itemLineEnd}
      [] OTHER -> {}

\* the types are the beginning of a content line; they are a whole one
LineBegins(types) ==
    /\ types # <<>> => types[1] = itemName
    /\ \A i \in 1..(Len(types) - 1) : types[i + 1] \in Follows(types[i])
    /\ \A i \in 1..(Len(types) - 1) : types[i] = itemColon => i = Len(types) - 2 \/ i = Len(types) - 1

WholeLine(types) ==
    /\ LineBegins(types)
    /\ Len(types) >= 4
    /\ types[Len(types)] = itemLineEnd

\* C24: the parser accepts a line that is no delimiter line exactly when its
\* tokens are name (';' param-name '=' param-value (',' param-value)*)* ':'
\* value line-end: while Parse has not returned, the tokens it has taken of
\* the current line begin such a line, a token that does not fit makes it
\* return an error, as does the zero token of the closed channel and nothing
\* else, a line it accepts is a whole one, and every Param of an accepted
\* Property has a value.
C24_ContentLineGrammar ==
    /\ []((~Returned /\ Alive /\ Taken # <<>> /\ Taken[LineStart(Taken)].typ <= itemKeyword)
            => LineBegins(LineTypes(Taken)))
    /\ []((Returned /\ recv # <<>> /\ recv[LineStart(recv)].typ <= itemKeyword)
            => /\ ~LineBegins(LineTypes(recv)) => ReturnedError
               /\ ReturnedError => (~LineBegins(LineTypes(recv)) \/ p.token[1] = zeroItem))
    /\ [][AcceptsLine =>
            /\ WholeLine(LineTypes(recv'))
            /\ \A n \in DOMAIN p.prop.Params : Len(p.prop.Params[n]) >= 1]_vars

\* the parser accepted a line with a param of two values, one of them empty
C24_AcceptedParams ==
    /\ p.pc = "scanContentLine" /\ p.at = 0
    /\ recv # <<>> /\ recv[Len(recv)].typ = itemLineEnd
    /\ \E n \in DOMAIN p.prop.Params :
        Len(p.prop.Params[n]) = 2 /\ p.prop.Params[n][1] = <<>>

\* the tokens after which the scanner scans a line end: the delimiter
\* keywords and the values
BeforeLineEnd == {itemValue} \cup {Keywords[i].typ : i \in 1..Len(Keywords)}

\* C25: where the scanner scans a line end, after a delimiter keyword or a
\* value, and the next two characters are not CR LF, the end of the input
\* included, the next token it emits is an error token, and no line-end token
\* follows for that position.
C25_NoLineEndWithoutCRLF ==
    \A i \in 1..Len(sent) :
        ( /\ sent[i].typ \in BeforeLineEnd
          /\ ~HasPrefix(sent[i].pos + Len(sent[i].val), crlf) )
            => /\ i = Len(sent) => l.state \notin {"nil", "closed"}
               /\ i < Len(sent) => sent[i + 1].typ = itemError
               /\ i + 1 < Len(sent) => sent[i + 2].typ # itemLineEnd

\* this step is a p.next() of the parser
ParserSteps == p' # p

\* C27: the pushback counter of the parser is 0 or 1; a next() after a
\* backup() returns the token the next() before it returned and takes
\* nothing from the scanner; every other next() takes the scanner's next
\* token; so the parser sees the tokens the scanner emitted, in their order,
\* none lost and none twice but for the rereads.
C27_OneTokenPushback ==
    /\ [](p.peekCount \in {0, 1})
    /\ [](sent = recv \o items)
    /\ [][(ParserSteps /\ p.peekCount > 0)
            => /\ NextToken = p.token[1]
               /\ recv # <<>> /\ NextToken = recv[Len(recv)]
               /\ p'.token = p.token
               /\ recv' = recv /\ items' = items]_vars
    /\ [][(ParserSteps /\ p.peekCount = 0 /\ items # <<>>)
            => /\ NextToken = Head(items)
               /\ recv' = Append(recv, Head(items))
               /\ items' = Tail(items)
               /\ p'.token[1] = Head(items)]_vars

\* a semicolon was put back by scanValues and scanParams is about to read it
\* again
C27_PutBack ==
    /\ p.pc = "scanParams" /\ p.at = 0
    /\ p.peekCount = 1
    /\ p.token[1].typ = itemSemiColon

\* parseDate was called
ParsedDate == tl.pc = "parsedDate"
EndsInZ(value) == Len(value) > 0 /\ value[Len(value)] = "Z"

\* C13: a value ending in Z resolves as a UTC date-time of the layout
\* YYYYMMDDTHHMMSSZ, whatever the parameters of the property.
C13_ZFirst ==
    (ParsedDate /\ EndsInZ(tl.prop.Value)) =>
        /\ ~tl.got.panic
        /\ IF layoutMatches(dateTimeLayoutUTC, tl.prop.Value)
           THEN /\ tl.got.ok
                /\ tl.got.t = [wall |-> SubSeq(tl.prop.Value, 1, 15), loc |-> "UTC", days |-> 0]
           ELSE ~tl.got.ok

\* C14: with a TZID that names no known zone, a local date-time resolves
\* without error and without crash to that date-time in UTC.
C14_UnknownZoneIsUTC ==
    ( /\ ParsedDate
      /\ sTZID \in DOMAIN tl.prop.Params
      /\ tl.prop.Params[sTZID][1] \notin {zoneNewYork, zoneUTC, <<>>}
      /\ layoutMatches(dateTimeLayoutLocalized, tl.prop.Value) ) =>
        /\ ~tl.got.panic
        /\ tl.got.ok
        /\ tl.got.t = [wall |-> tl.prop.Value, loc |-> "UTC", days |-> 0]


\* C26: a date of eight characters, with no TZID and no Z at its end,
\* resolves without error to midnight of that day in the default location,
\* with a VALUE parameter or without.
C26_BareDate ==
    ( /\ ParsedDate
      /\ sTZID \notin DOMAIN tl.prop.Params
      /\ layoutMatches(dateLayout, tl.prop.Value) ) =>
        /\ ~tl.got.panic
        /\ tl.got.ok
        /\ tl.got.t = [wall |-> tl.prop.Value \o SubSeq(Chars15, 9, 15),
                       loc |-> "Local", days |-> 0]


\* the line of a field, none when the field is empty
FieldLine(name, value) == IF value = <<>> THEN <<>> ELSE name \o <<":">> \o value \o <<CR, LF>>
TimeLine(name, t) == IF t = zeroTime THEN <<>> ELSE name \o <<":">> \o timeFormat(t) \o <<CR, LF>>

EventBlock(v) ==
    beginVEvent \o <<CR, LF>>
    \o FieldLine(sUID, v.UID) \o TimeLine(sDTSTAMP, v.Timestamp)
    \o TimeLine(sDTSTART, v.StartDate) \o TimeLine(sDTEND, v.EndDate)
    \o FieldLine(sSUMMARY, v.Summary) \o FieldLine(sDESCRIPTION, v.Description)
    \o endVEvent \o <<CR, LF>>

RECURSIVE EventBlocks(_)
EventBlocks(es) == IF es = <<>> THEN <<>> ELSE EventBlock(events[Head(es)]) \o EventBlocks(Tail(es))

\* C15: of a calendar without raw properties Format writes BEGIN:VCALENDAR,
\* a line for each non-empty field in the order PRODID, VERSION, CALSCALE,
\* METHOD, for each event BEGIN:VEVENT, a line for each non-empty or non-zero
\* field in the order UID, DTSTAMP, DTSTART, DTEND, SUMMARY, DESCRIPTION, and
\* END:VEVENT, then END:VCALENDAR, every line ending in CRLF.
C15_FormatLines ==
    tl.pc = "formatted" =>
        tl.text = beginVCalendar \o <<CR, LF>>
                  \o FieldLine(sPRODID, c.Prodid) \o FieldLine(sVERSION, c.Version)
                  \o FieldLine(sCALSCALE, c.Calscale) \o FieldLine(sMETHOD, c.Method)
                  \o EventBlocks(c.Events)
                  \o endVCalendar \o <<CR, LF>>

\* Format wrote a calendar with an empty field and two events, one with all
\* its fields set and one with a zero time
C15_Formatted ==
    /\ tl.pc = "formatted"
    /\ c.Method = <<>> /\ c.Prodid # <<>>
    /\ Len(c.Events) = 2
    /\ \E i, j \in 1..2 :
        /\ events[i].UID # <<>> /\ events[i].Timestamp # zeroTime
        /\ events[i].StartDate # zeroTime /\ events[i].EndDate # zeroTime
        /\ events[i].Summary # <<>> /\ events[i].Description # <<>>
        /\ events[j].StartDate = zeroTime /\ events[j].EndDate # zeroTime

=============================================================================
